---- MODULE Spec2Model ----
(***************************************************************************)
(* Progress tracking of the developer-labs site: the ProgressTracker       *)
(* component (in-memory ProgressRecord, navigation markers, progress bar,  *)
(* progress:* events) on top of the namespaced StorageManager wrapper      *)
(* around localStorage (Spec); StorageManager instances of several         *)
(* namespaces (SpecStorage); the trackers of two tabs (SpecTabs); the      *)
(* ThemeToggle component (SpecTheme); the LabNavigation component          *)
(* (SpecLab); the initialization polling of the tracker and of             *)
(* CopyToClipboard, with the tracker's destroy (SpecPoll); the feedback of *)
(* a copy button (SpecCopy); DOMUtils.waitForElement (SpecWait),           *)
(* debounce (SpecDebounce) and throttle (SpecThrottle); the init() and     *)
(* destroy() of MCPWorkshopApp (SpecApp).                                  *)
(***************************************************************************)
EXTENDS Integers, Sequences, FiniteSets, TLC

(***************************************************************************)
(* Bounds of the model.                                                    *)
(***************************************************************************)
\* a page carries at most MaxNav navigation markers; the i-th marker is the
\* one of step "i"
MaxNav == 1

\* a lab page carries at most MaxLabItems navigation items
MaxLabItems == 2

\* the canonical array-index strings, in numeric order
IndexIds == <<"1", "2", "3", "4", "5", "6", "7", "8", "9">>
\* the step ids of the markers a page may carry
MarkerIds == {IndexIds[i] : i \in 1..MaxNav}
\* the step ids callers, imports and earlier sessions use: the first step
\* and one that is no array index and has no marker on the page
StepIds == {"1", "intro"}
\* the data-step values of the first n items of a lab page
MarkerIdsOf(n) == {IndexIds[i] : i \in 1..n}
\* JavaScript's undefined, when passed where a step id is expected
UNDEF == "<undefined>"
\* what a caller may pass as stepId
StepArgs == StepIds \cup {"", UNDEF}

(***************************************************************************)
(* JavaScript objects with string keys and boolean values.  An object is   *)
(* the sequence of its own properties in own-property order: array-index   *)
(* keys first, in ascending numeric order, then the other keys in          *)
(* insertion order.                                                        *)
(***************************************************************************)
IsIndex(k) == \E i \in 1..Len(IndexIds) : IndexIds[i] = k
IndexOf(k) == CHOOSE i \in 1..Len(IndexIds) : IndexIds[i] = k

EmptyObject == <<>>

ObjectKeys(obj) == [i \in 1..Len(obj) |-> obj[i].k]

HasOwn(obj, k) == \E i \in 1..Len(obj) : obj[i].k = k

\* obj[k]: the value, or undefined
GetProp(obj, k) ==
  IF HasOwn(obj, k)
  THEN [defined |-> TRUE, v |-> obj[CHOOSE i \in 1..Len(obj) : obj[i].k = k].v]
  ELSE [defined |-> FALSE, v |-> FALSE]

\* Boolean(x)
ToBoolean(x) == x.defined /\ x.v

\* number of properties that precede a new key k in own-property order
InsertPos(obj, k) ==
  IF IsIndex(k)
  THEN Cardinality({i \in 1..Len(obj) :
                      IsIndex(obj[i].k) /\ IndexOf(obj[i].k) < IndexOf(k)})
  ELSE Len(obj)

\* obj[k] = v
SetProp(obj, k, v) ==
  IF HasOwn(obj, k)
  THEN [i \in 1..Len(obj) |-> IF obj[i].k = k THEN [k |-> k, v |-> v] ELSE obj[i]]
  ELSE LET p == InsertPos(obj, k)
       IN  SubSeq(obj, 1, p) \o <<[k |-> k, v |-> v]>> \o SubSeq(obj, p + 1, Len(obj))

\* variant of DeleteProp: `delete obj.stepId`, which removes the property
\* literally named stepId instead of the one the variable names
DeleteLiteralProp(obj, k) == SelectSeq(obj, LAMBDA e : e.k # "stepId")

\* variant of DeleteProp: `obj[k] = false`, which keeps the key
DeleteSetsFalse(obj, k) == SetProp(obj, k, FALSE)

\* delete obj[k]
DeleteProp(obj, k) == SelectSeq(obj, LAMBDA e : e.k # k)

\* { ...obj }: a fresh object that receives the properties of obj in order
RECURSIVE SpreadInto(_, _)
SpreadInto(target, props) ==
  IF props = <<>> THEN target
  ELSE SpreadInto(SetProp(target, Head(props).k, Head(props).v), Tail(props))

Spread(obj) == SpreadInto(EmptyObject, obj)

\* Object.values(obj).filter(Boolean).length
TruthyCount(obj) == Cardinality({i \in 1..Len(obj) : obj[i].v})

(***************************************************************************)
(* JSON text of such objects: the sequence of its members, each a key and  *)
(* the literal of its value.  A text with a member whose value is not a    *)
(* literal is not valid JSON.                                              *)
(***************************************************************************)
Literal(v) == IF v THEN "true" ELSE "false"

\* variant of JSONstringify: members with a false value are left out
StringifyTruthy(obj) ==
  LET kept == SelectSeq(obj, LAMBDA e : e.v)
  IN  [i \in 1..Len(kept) |-> <<kept[i].k, Literal(kept[i].v)>>]

JSONstringify(obj) == [i \in 1..Len(obj) |-> <<obj[i].k, Literal(obj[i].v)>>]

ValidJSON(text) == \A i \in 1..Len(text) : text[i][2] \in {"true", "false"}

RECURSIVE ParseMembers(_, _)
ParseMembers(target, text) ==
  IF text = <<>> THEN target
  ELSE ParseMembers(SetProp(target, Head(text)[1], Head(text)[2] = "true"), Tail(text))

\* JSON.parse of a valid text
JSONparse(text) == ParseMembers(EmptyObject, text)

\* a text JSON.parse throws on
CorruptText == <<<<"1", "tru">>>>

(***************************************************************************)
(* State.                                                                  *)
(***************************************************************************)
VARIABLES
  localStorage,      \* the origin's localStorage: full key -> item
  progress,          \* ProgressTracker.progress, the in-memory ProgressRecord
  navContainer,      \* whether the page has rendered its '.lab-nav' container
  navItems,          \* the '.lab-nav-item' markers of the page, in document order
  progressContainer, \* the progress bar element held by the tracker
  cleanupFunctions,  \* ProgressTracker.cleanupFunctions: one per attached click handler
  pc,                \* position of ProgressTracker.init(): "waiting" or "ready"
  last,              \* the last call: operation, argument, result, events it dispatched
  sm,                \* the last call made on a StorageManager instance
  tabs,              \* the ProgressTracker of each of two tabs of the origin
  theme,             \* the ThemeToggle component and what it renders
  lab,               \* the LabNavigation component and what it renders
  destroyed,         \* whether destroy() of the page's ProgressTracker has been called
  copy,              \* the CopyToClipboard component and a copy button
  app,               \* the MCPWorkshopApp singleton
  wait,              \* a call of DOMUtils.waitForElement
  deb,               \* a function made by DOMUtils.debounce
  thr                \* a function made by DOMUtils.throttle

\* the ProgressTracker of the page and the storage it works on
vars == <<localStorage, progress, navContainer, navItems, progressContainer,
          cleanupFunctions, pc, last>>

\* what no operation of the page's ProgressTracker touches
otherComponents == <<sm, tabs, theme, lab, copy, app, wait, deb, thr>>

\* the components that work with timers and promises, and the flag of the
\* tracker's destroy()
asyncVars == <<destroyed, copy, app, wait, deb, thr>>

\* the ProgressTracker of the page without the storage
trackerVars == <<progress, navContainer, navItems, progressContainer,
                 cleanupFunctions, pc, last>>

allVars == <<vars, otherComponents, destroyed>>

\* a component that is not part of the scenario
Absent == "absent"

\* none of the components with timers is part of the scenario
NoAsync ==
  /\ destroyed = FALSE
  /\ copy = Absent /\ app = Absent /\ wait = Absent /\ deb = Absent /\ thr = Absent

(***************************************************************************)
(* StorageManager                                                          *)
(***************************************************************************)
\* `${this.namespace}_${key}`
GetKey(namespace, key) == namespace \o "_" \o key

StorageKeys == {GetKey("mcp", "progress")}

NoItem == [present |-> FALSE, text |-> <<>>]

\* variant of StorageSave: the old item is removed before the new one is
\* set, so a failing setItem loses the previous value
StorageSaveRemovesFirst(store, namespace, key, data, setItemOK) ==
  LET serialized == JSONstringify(data)
      removed == [store EXCEPT ![GetKey(namespace, key)] = NoItem]
  IN  IF setItemOK
      THEN [ok |-> TRUE,
            store |-> [removed EXCEPT ![GetKey(namespace, key)] =
                         [present |-> TRUE, text |-> serialized]]]
      ELSE [ok |-> FALSE, store |-> removed]

\* save(key, data); setItemOK is false when a call of the try block throws:
\* localStorage.setItem (quota exceeded, storage disabled) or, before it,
\* JSON.stringify
StorageSave(store, namespace, key, data, setItemOK) ==
  LET serialized == JSONstringify(data)
  IN  IF setItemOK
      THEN [ok |-> TRUE,
            store |-> [store EXCEPT ![GetKey(namespace, key)] =
                         [present |-> TRUE, text |-> serialized]]]
      ELSE [ok |-> FALSE, store |-> store]

\* variant of StorageLoad: the text is parsed leniently, so a corrupt text
\* yields a value instead of the default
StorageLoadLenient(store, namespace, key, defaultValue) ==
  LET serialized == store[GetKey(namespace, key)]
  IN  IF ~serialized.present THEN defaultValue ELSE JSONparse(serialized.text)

\* load(key, defaultValue), when localStorage.getItem returns
StorageLoad(store, namespace, key, defaultValue) ==
  LET serialized == store[GetKey(namespace, key)]
  IN  IF ~serialized.present THEN defaultValue
      ELSE IF ValidJSON(serialized.text) THEN JSONparse(serialized.text)
      ELSE defaultValue

\* load(key, defaultValue); getItemOK is false when localStorage.getItem
\* throws (storage disabled)
StorageLoadOr(store, namespace, key, defaultValue, getItemOK) ==
  IF getItemOK THEN StorageLoad(store, namespace, key, defaultValue) ELSE defaultValue

\* remove(key); removeItemOK is false when localStorage.removeItem throws
StorageRemove(store, namespace, key, removeItemOK) ==
  IF removeItemOK
  THEN [ok |-> TRUE, store |-> [store EXCEPT ![GetKey(namespace, key)] = NoItem]]
  ELSE [ok |-> FALSE, store |-> store]

\* the namespaces of the two instances of the site, and one more whose name
\* begins with another namespace and an underscore
NamespaceTails == {"v2"}
Namespaces == {"mcp", "theme"} \cup {GetKey("mcp", t) : t \in NamespaceTails}
KeyNames == {"progress", "preference"}
FullKeys == {GetKey(namespace, key) : namespace \in Namespaces, key \in KeyNames}

\* what can follow a namespace prefix in a full key of the model
KeyTails == KeyNames \cup {GetKey(t, key) : t \in NamespaceTails, key \in KeyNames}

\* fullKey.startsWith(prefix), for the full keys and prefixes of the model
StartsWith(fullKey, prefix) == \E rest \in KeyTails : fullKey = prefix \o rest

\* clear(); keysOK is false when Object.keys(localStorage) throws
StorageClear(store, namespace, keysOK) ==
  LET keys == {k \in DOMAIN store : store[k].present}
      namespaceKeys == {k \in keys : StartsWith(k, namespace \o "_")}
  IN  IF keysOK
      THEN [ok |-> TRUE,
            store |-> [k \in DOMAIN store |-> IF k \in namespaceKeys THEN NoItem
                                              ELSE store[k]]]
      ELSE [ok |-> FALSE, store |-> store]

(***************************************************************************)
(* ProgressTracker: queries                                                *)
(***************************************************************************)
\* this.options.storageKey
StorageKey == "progress"

LoadProgress(store) == StorageLoad(store, "mcp", StorageKey, EmptyObject)

\* variant of SaveProgress: the write is skipped when the record did not
\* change
SaveProgressIfChanged(store, rec, setItemOK) ==
  IF rec = progress THEN [ok |-> TRUE, store |-> store]
  ELSE StorageSave(store, "mcp", StorageKey, rec, setItemOK)

SaveProgress(store, rec, setItemOK) == StorageSave(store, "mcp", StorageKey, rec, setItemOK)

\* Math.round(n / d) for n >= 0, d > 0: halves round up.  The code rounds
\* the double (completedSteps / totalSteps) * 100, which agrees with the
\* exact quotient for every page of fewer than 40 markers (with 40 markers
\* and 23 completed the double is 57.49999999999999 and rounds to 57).
MathRound(n, d) == (2 * n + d) \div (2 * d)

TotalSteps(items) == Len(items)

CompletedStepsCount(rec) == TruthyCount(rec)

CompletionPercentage(rec, items) ==
  LET totalSteps == TotalSteps(items)
      completedSteps == CompletedStepsCount(rec)
  IN  IF totalSteps > 0 THEN MathRound(completedSteps * 100, totalSteps) ELSE 0

ProgressSummary(rec, items) ==
  [totalSteps |-> TotalSteps(items),
   completedSteps |-> CompletedStepsCount(rec),
   percentage |-> CompletionPercentage(rec, items),
   completedStepIds |-> SelectSeq(ObjectKeys(rec), LAMBDA k : ToBoolean(GetProp(rec, k)))]

\* the queries on the current state
isStepCompleted(stepId) == ToBoolean(GetProp(progress, stepId))
getTotalSteps == TotalSteps(navItems)
getCompletedStepsCount == CompletedStepsCount(progress)
getCompletionPercentage == CompletionPercentage(progress, navItems)
getProgressSummary == ProgressSummary(progress, navItems)

(***************************************************************************)
(* ProgressTracker: rendering                                              *)
(***************************************************************************)
\* variant of UpdateStepUI: toggleClass is called without its condition, so
\* the 'completed' class flips on every call
UpdateStepUIToggle(items, rec, stepId) ==
  IF \E i \in 1..Len(items) : items[i].step = stepId
  THEN LET first == CHOOSE i \in 1..Len(items) :
                      /\ items[i].step = stepId
                      /\ \A j \in 1..(i - 1) : items[j].step # stepId
       IN  [items EXCEPT ![first].completed = ~items[first].completed]
  ELSE items

\* updateStepUI(stepId): the first element carrying data-step = stepId gets
\* the 'completed' class exactly when the step is completed
UpdateStepUI(items, rec, stepId) ==
  IF \E i \in 1..Len(items) : items[i].step = stepId
  THEN LET first == CHOOSE i \in 1..Len(items) :
                      /\ items[i].step = stepId
                      /\ \A j \in 1..(i - 1) : items[j].step # stepId
       IN  [items EXCEPT ![first].completed = ToBoolean(GetProp(rec, stepId))]
  ELSE items

\* updateProgressBar()
UpdateProgressBar(bar, rec, items) ==
  IF ~bar.exists THEN bar
  ELSE [bar EXCEPT !.text = CompletionPercentage(rec, items),
                   !.fill = CompletionPercentage(rec, items)]

\* the forEach of updateUI(): updateStepUI for every key of the record
RECURSIVE UpdateSteps(_, _, _)
UpdateSteps(items, rec, keys) ==
  IF keys = <<>> THEN items
  ELSE UpdateSteps(UpdateStepUI(items, rec, Head(keys)), rec, Tail(keys))

UpdateUIItems(items, rec) == UpdateSteps(items, rec, ObjectKeys(rec))

\* setupProgressBar(): builds the bar unless the container already has one
NoBar == [exists |-> FALSE, text |-> 0, fill |-> -1]

SetupProgressBar(bar, container) ==
  IF ~container THEN bar
  ELSE IF bar.exists THEN bar
  ELSE [exists |-> TRUE, text |-> 0, fill |-> -1]

\* setupNavigation(): every marker with a data-step gets its state rendered
\* and a click handler attached
RECURSIVE SetupNavigationFrom(_, _, _, _)
SetupNavigationFrom(i, items, rec, cleanups) ==
  IF i > Len(items) THEN [items |-> items, cleanups |-> cleanups]
  ELSE IF items[i].step = "" THEN SetupNavigationFrom(i + 1, items, rec, cleanups)
  ELSE SetupNavigationFrom(i + 1, UpdateStepUI(items, rec, items[i].step), rec,
                           Append(cleanups, i))

SetupNavigation(items, rec, cleanups) == SetupNavigationFrom(1, items, rec, cleanups)

\* variant of ProgressEvent: the summary is the one computed before the
\* mutation
StaleProgressEvent(eventType, stepId, rec, items) ==
  [type |-> "progress:" \o eventType, stepId |-> stepId,
   summary |-> ProgressSummary(progress, items)]

\* dispatchProgressEvent(eventType, detail)
ProgressEvent(eventType, stepId, rec, items) ==
  [type |-> "progress:" \o eventType, stepId |-> stepId,
   summary |-> ProgressSummary(rec, items)]

(***************************************************************************)
(* Inputs.                                                                 *)
(***************************************************************************)
\* every object over the step ids, in own-property order
AllObjects ==
  {obj \in UNION {[1..n -> [k : StepIds, v : BOOLEAN]] : n \in 0..Cardinality(StepIds)} :
     /\ \A i, j \in 1..Len(obj) : obj[i].k = obj[j].k => i = j
     /\ Spread(obj) = obj}

\* what localStorage may hold under a key when the tracker is constructed:
\* nothing, a record saved by a tracker of this or of another page, or a
\* text that does not parse
InitialItems ==
  {NoItem, [present |-> TRUE, text |-> CorruptText]}
    \cup {[present |-> TRUE, text |-> JSONstringify(obj)] : obj \in AllObjects}

\* the markers of a page: the i-th carries data-step "i", or no data-step
\* ("") when the markup omits it; none has the 'completed' class yet
Pages ==
  {items \in UNION {[1..n -> [step : MarkerIds \cup {""},
                              completed : {FALSE}]] : n \in 0..MaxNav} :
     \A i \in 1..Len(items) : items[i].step \in {IndexIds[i], ""}}

NoSummary ==
  [totalSteps |-> 0, completedSteps |-> 0, percentage |-> 0, completedStepIds |-> <<>>]

Timestamps == {"2025-01-01T00:00:00.000Z"}

\* the values a caller may pass to importProgress, besides an export
DataValue(kind, hasProgress, obj) ==
  [kind |-> kind, hasProgress |-> hasProgress, progress |-> obj,
   hasSummary |-> FALSE, summary |-> NoSummary, timestamp |-> ""]

NoData == DataValue("none", FALSE, EmptyObject)

ImportData ==
  {DataValue(kind, FALSE, EmptyObject) :
     kind \in {"undefined", "null", "number", "string", "array", "object"}}
    \cup {DataValue("object", TRUE, obj) : obj \in AllObjects}

\* exportProgress()
ExportProgress(now) ==
  [kind |-> "object", hasProgress |-> TRUE, progress |-> Spread(progress),
   hasSummary |-> TRUE, summary |-> getProgressSummary, timestamp |-> now]

\* !data || typeof data !== 'object'
InvalidData(data) ==
  \/ data.kind \in {"undefined", "null"}
  \/ data.kind \notin {"object", "array"}

\* variant of ImportedRecord: a misspelt field name, which reads undefined
ImportedMisspeltField(data) == EmptyObject

\* variant of ImportedRecord: Object.assign(this.progress, data.progress),
\* which keeps the entries of the previous record
ImportedMerged(data) ==
  IF data.hasProgress THEN SpreadInto(progress, data.progress) ELSE progress

\* { ...data.progress } || {}
ImportedRecord(data) ==
  IF data.hasProgress THEN Spread(data.progress) ELSE EmptyObject

\* variant of Falsy: `stepId === ''`, which lets undefined through
FalsyEmptyOnly(stepId) == stepId = ""

\* !stepId
Falsy(stepId) == stepId \in {"", UNDEF}

(***************************************************************************)
(* The record of the last call.                                            *)
(***************************************************************************)
\* wasCompleted: whether the step of the call (for a call without a step:
\* any step) was completed when the call was made
Call(op, via, stepId, data, ret, wrote, events) ==
  [op |-> op, via |-> via, stepId |-> stepId, data |-> data, ret |-> ret,
   wrote |-> wrote, events |-> events,
   wasCompleted |-> IF stepId \in StepIds \cup MarkerIds
                    THEN ToBoolean(GetProp(progress, stepId))
                    ELSE CompletedStepsCount(progress) > 0]

Init ==
  /\ localStorage \in [StorageKeys -> InitialItems]
  /\ progress = LoadProgress(localStorage)
  /\ navContainer \in BOOLEAN
  /\ navItems \in (IF navContainer THEN Pages ELSE {<<>>})
  /\ progressContainer = NoBar
  /\ cleanupFunctions = <<>>
  /\ pc = "waiting"
  /\ last = [op |-> "construct", via |-> "", stepId |-> "", data |-> NoData,
             ret |-> FALSE, wrote |-> FALSE, events |-> <<>>,
             wasCompleted |-> FALSE]
  /\ sm = Absent /\ tabs = Absent /\ theme = Absent /\ lab = Absent
  /\ NoAsync

(***************************************************************************)
(* The page renders its navigation.                                        *)
(***************************************************************************)
RenderPage ==
  /\ ~navContainer
  /\ navContainer' = TRUE
  /\ navItems' \in Pages
  /\ last' = Call("render", "", "", NoData, FALSE, FALSE, <<>>)
  /\ UNCHANGED <<localStorage, progress, progressContainer, cleanupFunctions, pc>>
  /\ UNCHANGED <<otherComponents, destroyed>>

(***************************************************************************)
(* init(): one run of checkDOM; when the container and a marker are there, *)
(* setupProgressBar, setupNavigation and updateUI follow.                  *)
(***************************************************************************)
CheckDOM ==
  /\ pc = "waiting"
  /\ IF navContainer /\ Len(navItems) > 0
     THEN LET bar == SetupProgressBar(progressContainer, navContainer)
              nav == SetupNavigation(navItems, progress, cleanupFunctions)
              items == UpdateUIItems(nav.items, progress)
          IN  /\ navItems' = items
              /\ cleanupFunctions' = nav.cleanups
              /\ progressContainer' = UpdateProgressBar(bar, progress, items)
              /\ pc' = "ready"
              /\ last' = Call("init", "", "", NoData, TRUE, FALSE, <<>>)
     ELSE /\ last' = Call("checkDOM", "", "", NoData, FALSE, FALSE, <<>>)
          /\ UNCHANGED <<navItems, cleanupFunctions, progressContainer, pc>>
  /\ UNCHANGED <<localStorage, progress, navContainer>>
  /\ UNCHANGED <<otherComponents, destroyed>>

(***************************************************************************)
(* markStepCompleted(stepId)                                               *)
(***************************************************************************)
MarkStepCompletedVia(via, stepId, setItemOK) ==
  IF Falsy(stepId)
  THEN /\ last' = Call("markStepCompleted", via, stepId, NoData, FALSE, FALSE, <<>>)
       /\ UNCHANGED <<localStorage, progress, navContainer, navItems,
                      progressContainer, cleanupFunctions, pc>>
       /\ UNCHANGED <<otherComponents, destroyed>>
  ELSE LET rec == SetProp(progress, stepId, TRUE)
           saved == SaveProgress(localStorage, rec, setItemOK)
           items == IF saved.ok THEN UpdateStepUI(navItems, rec, stepId) ELSE navItems
       IN  /\ progress' = rec
           /\ localStorage' = saved.store
           /\ navItems' = items
           /\ progressContainer' =
                IF saved.ok THEN UpdateProgressBar(progressContainer, rec, items)
                ELSE progressContainer
           /\ last' = Call("markStepCompleted", via, stepId, NoData, saved.ok, saved.ok,
                           IF saved.ok
                           THEN <<ProgressEvent("step-completed", stepId, rec, items)>>
                           ELSE <<>>)
           /\ UNCHANGED <<navContainer, cleanupFunctions, pc>>
           /\ UNCHANGED <<otherComponents, destroyed>>

MarkStepCompleted(stepId, setItemOK) == MarkStepCompletedVia("api", stepId, setItemOK)

\* a click on marker i runs every handler attached to it: handleStepClick
HandleStepClick(i, setItemOK) ==
  /\ \E n \in 1..Len(cleanupFunctions) : cleanupFunctions[n] = i
  /\ MarkStepCompletedVia("click", navItems[i].step, setItemOK)

(***************************************************************************)
(* markStepIncomplete(stepId)                                              *)
(***************************************************************************)
MarkStepIncomplete(stepId, setItemOK) ==
  IF Falsy(stepId)
  THEN /\ last' = Call("markStepIncomplete", "api", stepId, NoData, FALSE, FALSE, <<>>)
       /\ UNCHANGED <<localStorage, progress, navContainer, navItems,
                      progressContainer, cleanupFunctions, pc>>
       /\ UNCHANGED <<otherComponents, destroyed>>
  ELSE LET rec == DeleteProp(progress, stepId)
           saved == SaveProgress(localStorage, rec, setItemOK)
           items == IF saved.ok THEN UpdateStepUI(navItems, rec, stepId) ELSE navItems
       IN  /\ progress' = rec
           /\ localStorage' = saved.store
           /\ navItems' = items
           /\ progressContainer' =
                IF saved.ok THEN UpdateProgressBar(progressContainer, rec, items)
                ELSE progressContainer
           /\ last' = Call("markStepIncomplete", "api", stepId, NoData, saved.ok, saved.ok,
                           IF saved.ok
                           THEN <<ProgressEvent("step-incompleted", stepId, rec, items)>>
                           ELSE <<>>)
           /\ UNCHANGED <<navContainer, cleanupFunctions, pc>>
           /\ UNCHANGED <<otherComponents, destroyed>>

\* variant of ResetProgress: the record is cleared only once the empty
\* record has been saved
ResetProgressWhenSaved(setItemOK) ==
  LET rec == EmptyObject
      saved == SaveProgress(localStorage, rec, setItemOK)
      items == IF saved.ok THEN UpdateUIItems(navItems, rec) ELSE navItems
  IN  /\ progress' = IF saved.ok THEN rec ELSE progress
      /\ localStorage' = saved.store
      /\ navItems' = items
      /\ progressContainer' =
           IF saved.ok THEN UpdateProgressBar(progressContainer, rec, items)
           ELSE progressContainer
      /\ last' = Call("resetProgress", "api", "", NoData, saved.ok, saved.ok,
                      IF saved.ok
                      THEN <<ProgressEvent("progress-reset", "", rec, items)>>
                      ELSE <<>>)
      /\ UNCHANGED <<navContainer, cleanupFunctions, pc>>
      /\ UNCHANGED <<otherComponents, destroyed>>

(***************************************************************************)
(* resetProgress()                                                         *)
(***************************************************************************)
ResetProgress(setItemOK) ==
  LET rec == EmptyObject
      saved == SaveProgress(localStorage, rec, setItemOK)
      items == IF saved.ok THEN UpdateUIItems(navItems, rec) ELSE navItems
  IN  /\ progress' = rec
      /\ localStorage' = saved.store
      /\ navItems' = items
      /\ progressContainer' =
           IF saved.ok THEN UpdateProgressBar(progressContainer, rec, items)
           ELSE progressContainer
      /\ last' = Call("resetProgress", "api", "", NoData, saved.ok, saved.ok,
                      IF saved.ok
                      THEN <<ProgressEvent("progress-reset", "", rec, items)>>
                      ELSE <<>>)
      /\ UNCHANGED <<navContainer, cleanupFunctions, pc>>
      /\ UNCHANGED <<otherComponents, destroyed>>

(***************************************************************************)
(* importProgress(data)                                                    *)
(***************************************************************************)
ImportProgress(data, setItemOK) ==
  IF InvalidData(data)
  THEN /\ last' = Call("importProgress", "api", "", data, FALSE, FALSE, <<>>)
       /\ UNCHANGED <<localStorage, progress, navContainer, navItems,
                      progressContainer, cleanupFunctions, pc>>
       /\ UNCHANGED <<otherComponents, destroyed>>
  ELSE LET rec == ImportedRecord(data)
           saved == SaveProgress(localStorage, rec, setItemOK)
           items == IF saved.ok THEN UpdateUIItems(navItems, rec) ELSE navItems
       IN  /\ progress' = rec
           /\ localStorage' = saved.store
           /\ navItems' = items
           /\ progressContainer' =
                IF saved.ok THEN UpdateProgressBar(progressContainer, rec, items)
                ELSE progressContainer
           /\ last' = Call("importProgress", "api", "", data, saved.ok, saved.ok,
                           IF saved.ok
                           THEN <<ProgressEvent("progress-imported", "", rec, items)>>
                           ELSE <<>>)
           /\ UNCHANGED <<navContainer, cleanupFunctions, pc>>
           /\ UNCHANGED <<otherComponents, destroyed>>

\* importProgress(exportProgress())
ImportExported(setItemOK) ==
  \E now \in Timestamps : ImportProgress(ExportProgress(now), setItemOK)

Next ==
  \/ RenderPage
  \/ CheckDOM
  \/ \E stepId \in StepArgs, setItemOK \in BOOLEAN : MarkStepCompleted(stepId, setItemOK)
  \/ \E i \in 1..Len(navItems), setItemOK \in BOOLEAN : HandleStepClick(i, setItemOK)
  \/ \E stepId \in StepArgs, setItemOK \in BOOLEAN : MarkStepIncomplete(stepId, setItemOK)
  \/ \E setItemOK \in BOOLEAN : ResetProgress(setItemOK)
  \/ \E data \in ImportData, setItemOK \in BOOLEAN : ImportProgress(data, setItemOK)
  \/ \E setItemOK \in BOOLEAN : ImportExported(setItemOK)

Spec == Init /\ [][Next]_allVars

(***************************************************************************)
(* StorageManager instances of several namespaces on one localStorage.     *)
(***************************************************************************)
\* the values the instances save, and the defaults the callers of load pass
SavedValues == {<<[k |-> "1", v |-> TRUE]>>, <<[k |-> "intro", v |-> FALSE]>>}
DefaultValues == {EmptyObject, <<[k |-> "1", v |-> TRUE]>>}

\* no value was saved under a key, or the key has been removed since
NeverSaved == [any |-> FALSE, data |-> EmptyObject]

\* the page has no ProgressTracker in this scenario
NoTracker ==
  /\ progress = EmptyObject
  /\ navContainer = FALSE
  /\ navItems = <<>>
  /\ progressContainer = NoBar
  /\ cleanupFunctions = <<>>
  /\ pc = "waiting"
  /\ last = [op |-> "none"]

\* the call just made: threw tells whether a call of the try block threw,
\* saved is the value last saved with success under each full key
StorageCall(op, namespace, key, data, ret, value, threw, saved) ==
  [op |-> op, namespace |-> namespace, key |-> key, data |-> data, ret |-> ret,
   value |-> value, threw |-> threw, saved |-> saved]

InitStorage ==
  /\ localStorage \in {[k \in FullKeys |-> NoItem],
                       [k \in FullKeys |-> IF k = GetKey("mcp", StorageKey)
                                           THEN [present |-> TRUE, text |-> CorruptText]
                                           ELSE NoItem]}
  /\ sm = StorageCall("construct", "", "", EmptyObject, FALSE, EmptyObject, FALSE,
                      [k \in FullKeys |-> NeverSaved])
  /\ NoTracker
  /\ tabs = Absent /\ theme = Absent /\ lab = Absent
  /\ NoAsync

Save(namespace, key, data, setItemOK) ==
  LET saved == StorageSave(localStorage, namespace, key, data, setItemOK)
  IN  /\ localStorage' = saved.store
      /\ sm' = StorageCall("save", namespace, key, data, saved.ok, EmptyObject, ~setItemOK,
                           IF saved.ok
                           THEN [sm.saved EXCEPT ![GetKey(namespace, key)] =
                                   [any |-> TRUE, data |-> data]]
                           ELSE sm.saved)
      /\ UNCHANGED <<trackerVars, tabs, theme, lab, asyncVars>>

Load(namespace, key, defaultValue, getItemOK) ==
  /\ sm' = StorageCall("load", namespace, key, defaultValue, FALSE,
                       StorageLoadOr(localStorage, namespace, key, defaultValue, getItemOK),
                       ~getItemOK, sm.saved)
  /\ UNCHANGED <<localStorage, trackerVars, tabs, theme, lab, asyncVars>>

Remove(namespace, key, removeItemOK) ==
  LET removed == StorageRemove(localStorage, namespace, key, removeItemOK)
  IN  /\ localStorage' = removed.store
      /\ sm' = StorageCall("remove", namespace, key, EmptyObject, removed.ok, EmptyObject,
                           ~removeItemOK,
                           IF removed.ok
                           THEN [sm.saved EXCEPT ![GetKey(namespace, key)] = NeverSaved]
                           ELSE sm.saved)
      /\ UNCHANGED <<trackerVars, tabs, theme, lab, asyncVars>>

Clear(namespace, keysOK) ==
  LET cleared == StorageClear(localStorage, namespace, keysOK)
  IN  /\ localStorage' = cleared.store
      /\ sm' = StorageCall("clear", namespace, "", EmptyObject, cleared.ok, EmptyObject,
                           ~keysOK,
                           IF cleared.ok
                           THEN [k \in FullKeys |->
                                   IF \E key \in KeyNames : k = GetKey(namespace, key)
                                   THEN NeverSaved ELSE sm.saved[k]]
                           ELSE sm.saved)
      /\ UNCHANGED <<trackerVars, tabs, theme, lab, asyncVars>>

NextStorage ==
  \/ \E namespace \in Namespaces, key \in KeyNames, data \in SavedValues,
        setItemOK \in BOOLEAN : Save(namespace, key, data, setItemOK)
  \/ \E namespace \in Namespaces, key \in KeyNames, defaultValue \in DefaultValues,
        getItemOK \in BOOLEAN : Load(namespace, key, defaultValue, getItemOK)
  \/ \E namespace \in Namespaces, key \in KeyNames, removeItemOK \in BOOLEAN :
        Remove(namespace, key, removeItemOK)
  \/ \E namespace \in Namespaces, keysOK \in BOOLEAN : Clear(namespace, keysOK)

SpecStorage == InitStorage /\ [][NextStorage]_allVars

(***************************************************************************)
(* Two tabs of the origin: each constructs its own ProgressTracker, which  *)
(* loads its record once, in the constructor, and writes the whole record  *)
(* on every mutation.  The trackers share localStorage and nothing else.   *)
(***************************************************************************)
Tabs == {"A", "B"}

\* a tab that has not constructed its tracker yet
Closed == [open |-> FALSE, progress |-> EmptyObject]

\* the state of the tabs: the tracker of each, and the tab whose save was
\* the last to succeed ("" when none has)
InitTabs ==
  /\ localStorage \in [StorageKeys -> InitialItems]
  /\ tabs = [tracker |-> [t \in Tabs |-> Closed], lastWriter |-> ""]
  /\ NoTracker
  /\ sm = Absent /\ theme = Absent /\ lab = Absent
  /\ NoAsync

\* new ProgressTracker() in tab t
OpenTab(t) ==
  /\ ~tabs.tracker[t].open
  /\ tabs' = [tabs EXCEPT !.tracker[t] =
                [open |-> TRUE, progress |-> LoadProgress(localStorage)]]
  /\ UNCHANGED <<localStorage, trackerVars, sm, theme, lab, asyncVars>>

\* the tracker of tab t sets its record to rec and saves it
TabWrite(t, rec, setItemOK) ==
  LET saved == SaveProgress(localStorage, rec, setItemOK)
  IN  /\ tabs' = [tabs EXCEPT !.tracker[t].progress = rec,
                              !.lastWriter = IF saved.ok THEN t ELSE @]
      /\ localStorage' = saved.store
      /\ UNCHANGED <<trackerVars, sm, theme, lab, asyncVars>>

TabMarkStepCompleted(t, stepId, setItemOK) ==
  /\ tabs.tracker[t].open
  /\ ~Falsy(stepId)
  /\ TabWrite(t, SetProp(tabs.tracker[t].progress, stepId, TRUE), setItemOK)

TabMarkStepIncomplete(t, stepId, setItemOK) ==
  /\ tabs.tracker[t].open
  /\ ~Falsy(stepId)
  /\ TabWrite(t, DeleteProp(tabs.tracker[t].progress, stepId), setItemOK)

TabResetProgress(t, setItemOK) ==
  /\ tabs.tracker[t].open
  /\ TabWrite(t, EmptyObject, setItemOK)

TabImportProgress(t, data, setItemOK) ==
  /\ tabs.tracker[t].open
  /\ ~InvalidData(data)
  /\ TabWrite(t, ImportedRecord(data), setItemOK)

NextTabs ==
  \/ \E t \in Tabs : OpenTab(t)
  \/ \E t \in Tabs, stepId \in StepArgs, setItemOK \in BOOLEAN :
        TabMarkStepCompleted(t, stepId, setItemOK)
  \/ \E t \in Tabs, stepId \in StepArgs, setItemOK \in BOOLEAN :
        TabMarkStepIncomplete(t, stepId, setItemOK)
  \/ \E t \in Tabs, setItemOK \in BOOLEAN : TabResetProgress(t, setItemOK)
  \/ \E t \in Tabs, data \in ImportData, setItemOK \in BOOLEAN :
        TabImportProgress(t, data, setItemOK)

SpecTabs == InitTabs /\ [][NextTabs]_allVars

(***************************************************************************)
(* ThemeToggle: the theme of the page, kept under 'theme_preference'.      *)
(***************************************************************************)
Themes == {"dark", "light"}

\* what a caller may pass to setTheme: a theme, or a string that is none
ThemeArgs == Themes \cup {"sepia"}

\* JavaScript's null
NULL == "<null>"

\* JSON.stringify of a string
JSONstringifyString(str) == "\"" \o str \o "\""

\* the JSON texts of strings that JSON.parse accepts
ValidJSONString(text) == \E str \in ThemeArgs : JSONstringifyString(str) = text

\* JSON.parse of the text of a string
JSONparseString(text) == CHOOSE str \in ThemeArgs : JSONstringifyString(str) = text

\* a text JSON.parse throws on
CorruptString == "\"dar"

NoStringItem == [present |-> FALSE, text |-> ""]

\* save(key, data) for a string
StorageSaveString(store, namespace, key, data, setItemOK) ==
  LET serialized == JSONstringifyString(data)
  IN  IF setItemOK
      THEN [ok |-> TRUE,
            store |-> [store EXCEPT ![GetKey(namespace, key)] =
                         [present |-> TRUE, text |-> serialized]]]
      ELSE [ok |-> FALSE, store |-> store]

\* load(key, defaultValue) of a string
StorageLoadString(store, namespace, key, defaultValue) ==
  LET serialized == store[GetKey(namespace, key)]
  IN  IF ~serialized.present THEN defaultValue
      ELSE IF ValidJSONString(serialized.text) THEN JSONparseString(serialized.text)
      ELSE defaultValue

\* this.storage.load('preference')
LoadPreference(store) == StorageLoadString(store, "theme", "preference", NULL)

\* loadTheme(): saved || 'dark'
LoadTheme(store) ==
  LET saved == LoadPreference(store)
  IN  IF saved \in {NULL, ""} THEN "dark" ELSE saved

\* saveTheme(theme): the result of save is dropped
SaveTheme(store, t, setItemOK) ==
  StorageSaveString(store, "theme", "preference", t, setItemOK).store

\* dispatchThemeChangeEvent(theme), on the component th
ThemeChangeEvent(th, t) ==
  [type |-> "themechange", theme |-> t, previousTheme |-> th.currentTheme]

\* applyTheme(theme), on the component th
ApplyTheme(th, t) ==
  LET isDark == t = "dark"
  IN  [th EXCEPT !.lightMode = ~isDark,
                 !.label = IF th.button
                           THEN (IF isDark THEN "Switch to light mode"
                                 ELSE "Switch to dark mode")
                           ELSE @,
                 !.events = Append(@, ThemeChangeEvent(th, t))]

\* variant of SetTheme: the check of the argument is missing
SetThemeUnchecked(th, store, t, setItemOK) ==
  [theme |-> [ApplyTheme([th EXCEPT !.currentTheme = t], t) EXCEPT !.saved = setItemOK],
   store |-> SaveTheme(store, t, setItemOK)]

\* setTheme(theme), on the component th: the component and the storage
\* afterwards; saved tells whether saveTheme wrote the preference
SetTheme(th, store, t, setItemOK) ==
  IF t \notin Themes
  THEN [theme |-> th, store |-> store]
  ELSE [theme |-> [ApplyTheme([th EXCEPT !.currentTheme = t], t)
                     EXCEPT !.saved = setItemOK],
        store |-> SaveTheme(store, t, setItemOK)]

\* toggle(): the theme it asks setTheme for
Toggled(th) == IF th.currentTheme = "dark" THEN "light" ELSE "dark"

\* the component as an operation with argument arg finds it: the events of
\* the operation before are gone; manual tells whether the user has chosen
\* a theme, in this session or in an earlier one
Entering(th, op, arg) ==
  [th EXCEPT !.op = op, !.arg = arg, !.saved = FALSE, !.events = <<>>,
             !.manual = @ \/ (op \in {"toggle", "click", "setTheme"} /\ arg \in Themes)]

\* what localStorage may hold under 'theme_preference' at construction
InitialPreferences ==
  {NoStringItem, [present |-> TRUE, text |-> CorruptString]}
    \cup {[present |-> TRUE, text |-> JSONstringifyString(t)] : t \in Themes}

\* new ThemeToggle(): the constructor and init()
InitTheme ==
  /\ localStorage \in [{GetKey("theme", "preference")} -> InitialPreferences]
  /\ \E button \in BOOLEAN, matchMedia \in BOOLEAN :
       LET constructed ==
             [op |-> "construct", button |-> button, matchMedia |-> matchMedia,
              currentTheme |-> LoadTheme(localStorage), lightMode |-> FALSE,
              label |-> "", cleanupFunctions |-> 0, events |-> <<>>,
              arg |-> "", saved |-> FALSE,
              manual |-> LoadPreference(localStorage) # NULL]
       IN  theme = IF ~button THEN constructed
                   ELSE [ApplyTheme(constructed, constructed.currentTheme)
                           EXCEPT !.cleanupFunctions = IF matchMedia THEN 3 ELSE 2]
  /\ NoTracker
  /\ sm = Absent /\ tabs = Absent /\ lab = Absent
  /\ NoAsync

\* the component and the storage become what setTheme left
ThemeBecomes(result) ==
  /\ theme' = result.theme
  /\ localStorage' = result.store
  /\ UNCHANGED <<trackerVars, sm, tabs, lab, asyncVars>>

\* toggle(), called on the component
ThemeToggle(setItemOK) ==
  ThemeBecomes(SetTheme(Entering(theme, "toggle", Toggled(theme)), localStorage,
                        Toggled(theme), setItemOK))

\* a click on the button, or Enter or Space on it
ThemeButton(setItemOK) ==
  /\ theme.cleanupFunctions > 0
  /\ ThemeBecomes(SetTheme(Entering(theme, "click", Toggled(theme)), localStorage,
                           Toggled(theme), setItemOK))

\* setTheme(theme), called on the component
ThemeSetTheme(t, setItemOK) ==
  ThemeBecomes(SetTheme(Entering(theme, "setTheme", t), localStorage, t, setItemOK))

\* handleSystemThemeChange(e): the system preference changed
HandleSystemThemeChange(matches, setItemOK) ==
  /\ theme.cleanupFunctions = 3
  /\ LET hasPreference == LoadPreference(localStorage)
         system == IF matches THEN "dark" ELSE "light"
     IN  IF hasPreference \in {NULL, ""}
         THEN ThemeBecomes(SetTheme(Entering(theme, "systemChange", system), localStorage,
                                    system, setItemOK))
         ELSE ThemeBecomes([theme |-> Entering(theme, "systemChange", system),
                            store |-> localStorage])

NextTheme ==
  \/ \E setItemOK \in BOOLEAN : ThemeToggle(setItemOK)
  \/ \E setItemOK \in BOOLEAN : ThemeButton(setItemOK)
  \/ \E t \in ThemeArgs, setItemOK \in BOOLEAN : ThemeSetTheme(t, setItemOK)
  \/ \E matches \in BOOLEAN, setItemOK \in BOOLEAN :
        HandleSystemThemeChange(matches, setItemOK)

SpecTheme == InitTheme /\ [][NextTheme]_allVars

(***************************************************************************)
(* LabNavigation: the step shown on a lab page and the active nav item.    *)
(***************************************************************************)
\* the pages: the i-th '.lab-nav-item' carries data-step "i", or none ("",
\* getAttribute returns null); the page has a '#step-i' section for some
\* of the steps
LabPages ==
  {page \in [items : UNION {[1..n -> MarkerIdsOf(n) \cup {""}] : n \in 0..MaxLabItems},
             content : SUBSET MarkerIdsOf(MaxLabItems)] :
     \A i \in 1..Len(page.items) : page.items[i] \in {IndexIds[i], ""}}

\* the component after the field initializers of the constructor
Constructed(page) ==
  [op |-> "construct",
   navItems |-> [i \in 1..Len(page.items) |-> [step |-> page.items[i], active |-> FALSE]],
   display |-> [id \in page.content |-> ""],
   currentStep |-> NULL,
   cleanupFunctions |-> 0,
   target |-> NULL, ret |-> FALSE, threw |-> FALSE, events |-> <<>>]

\* showStep(stepNumber), on the component lb
ShowStep(lb, stepNumber) ==
  IF stepNumber \notin DOMAIN lb.display
  THEN lb
  ELSE [lb EXCEPT !.display = [id \in DOMAIN lb.display |->
                                 IF id = stepNumber THEN "block" ELSE "none"],
                  !.currentStep = stepNumber]

\* setActiveNavItem(activeItem), for the item at position i
SetActiveNavItem(lb, i) ==
  [lb EXCEPT !.navItems = [j \in 1..Len(lb.navItems) |->
                             [lb.navItems[j] EXCEPT !.active = (j = i)]]]

\* this.navItems.findIndex(item => item.getAttribute('data-step') === step),
\* counted from 1; 0 when no item matches
FindIndex(lb, step) ==
  IF \E i \in 1..Len(lb.navItems) : lb.navItems[i].step = step
  THEN CHOOSE i \in 1..Len(lb.navItems) :
         /\ lb.navItems[i].step = step
         /\ \A j \in 1..(i - 1) : lb.navItems[j].step # step
  ELSE 0

\* getStepInfo(stepNumber) for the step of an item of the page
GetStepInfo(lb, stepNumber) ==
  [number |-> stepNumber,
   contentElement |-> stepNumber \in DOMAIN lb.display,
   isActive |-> lb.navItems[FindIndex(lb, stepNumber)].active]

\* dispatchStepChangeEvent(stepNumber): getStepInfo(null) throws on
\* stepNumber.toString(), and then nothing is dispatched
DispatchStepChangeEvent(lb, stepNumber) ==
  IF stepNumber = ""
  THEN [lb EXCEPT !.threw = TRUE]
  ELSE [lb EXCEPT !.events = Append(@, [type |-> "lab:step-change",
                                        stepNumber |-> stepNumber,
                                        previousStep |-> lb.currentStep,
                                        stepInfo |-> GetStepInfo(lb, stepNumber)])]

\* handleStepClick(stepNumber, navItem), for the item at position i
LabHandleStepClick(lb, stepNumber, i) ==
  DispatchStepChangeEvent(SetActiveNavItem(ShowStep(lb, stepNumber), i), stepNumber)

\* setupNavigation(): a click and a keydown handler on every item that has
\* a data-step
LabSetupNavigation(lb) ==
  [lb EXCEPT !.cleanupFunctions =
     2 * Cardinality({i \in 1..Len(lb.navItems) : lb.navItems[i].step # ""})]

\* showInitialStep()
ShowInitialStep(lb) ==
  IF Len(lb.navItems) > 0 /\ lb.navItems[1].step # ""
  THEN LabHandleStepClick([lb EXCEPT !.target = lb.navItems[1].step],
                          lb.navItems[1].step, 1)
  ELSE lb

\* getCurrentStepIndex(), counted from 0 as in the code; -1 when no item
\* carries the current step
GetCurrentStepIndex(lb) ==
  IF lb.currentStep = NULL THEN 0 ELSE FindIndex(lb, lb.currentStep) - 1

\* the component as an operation finds it
LabEntering(lb, op, target) ==
  [lb EXCEPT !.op = op, !.target = target, !.ret = FALSE, !.threw = FALSE,
             !.events = <<>>]

\* new LabNavigation(): the constructor and init()
InitLab ==
  /\ \E page \in LabPages :
       lab = IF Len(page.items) = 0 THEN Constructed(page)
             ELSE ShowInitialStep(LabSetupNavigation(Constructed(page)))
  /\ localStorage = [k \in StorageKeys |-> NoItem]
  /\ NoTracker
  /\ sm = Absent /\ tabs = Absent /\ theme = Absent
  /\ NoAsync

\* a click on item i, or Enter or Space on it
LabClick(i) ==
  /\ lab.navItems[i].step # ""
  /\ lab.cleanupFunctions > 0
  /\ lab' = LabHandleStepClick(LabEntering(lab, "click", lab.navItems[i].step),
                               lab.navItems[i].step, i)
  /\ UNCHANGED <<vars, sm, tabs, theme, asyncVars>>

\* nextStep()
LabNextStep ==
  /\ LET nextIndex == GetCurrentStepIndex(lab) + 1
     IN  lab' = IF nextIndex < Len(lab.navItems)
                THEN LET nextStepNumber == lab.navItems[nextIndex + 1].step
                         done == LabHandleStepClick(
                                   LabEntering(lab, "nextStep", nextStepNumber),
                                   nextStepNumber, nextIndex + 1)
                     IN  [done EXCEPT !.ret = ~done.threw]
                ELSE LabEntering(lab, "nextStep", NULL)
  /\ UNCHANGED <<vars, sm, tabs, theme, asyncVars>>

\* previousStep()
LabPreviousStep ==
  /\ LET prevIndex == GetCurrentStepIndex(lab) - 1
     IN  lab' = IF prevIndex >= 0
                THEN LET prevStepNumber == lab.navItems[prevIndex + 1].step
                         done == LabHandleStepClick(
                                   LabEntering(lab, "previousStep", prevStepNumber),
                                   prevStepNumber, prevIndex + 1)
                     IN  [done EXCEPT !.ret = ~done.threw]
                ELSE LabEntering(lab, "previousStep", NULL)
  /\ UNCHANGED <<vars, sm, tabs, theme, asyncVars>>

\* navigateToStep(stepNumber), for a number
NavigateToStep(stepNumber) ==
  /\ LET step == IndexIds[stepNumber]
         navItem == FindIndex(lab, step)
     IN  lab' = IF navItem # 0
                THEN [LabHandleStepClick(LabEntering(lab, "navigateToStep", step),
                                         step, navItem) EXCEPT !.ret = TRUE]
                ELSE LabEntering(lab, "navigateToStep", step)
  /\ UNCHANGED <<vars, sm, tabs, theme, asyncVars>>

NextLab ==
  \/ \E i \in 1..Len(lab.navItems) : LabClick(i)
  \/ LabNextStep
  \/ LabPreviousStep
  \/ \E stepNumber \in 1..(MaxLabItems + 1) : NavigateToStep(stepNumber)

SpecLab == InitLab /\ [][NextLab]_allVars

(***************************************************************************)
(* CopyToClipboard (CopyToClipboard.js): the component waits for code      *)
(* blocks as the tracker waits for its navigation, then gives every code   *)
(* block a copy button.  A click starts a clipboard write; when the write  *)
(* settles, showFeedback changes the button and starts a timer that puts   *)
(* back what showFeedback found.                                           *)
(***************************************************************************)
\* the most code blocks of a page
MaxBlocks == 2

\* the most clipboard writes and feedback timers outstanding together
MaxInFlight == 2

\* this.options: buttonClass and the labels (without their emoji)
CopyOptions ==
  [buttonClass |-> "copy-btn", buttonText |-> "Copy",
   successText |-> "Copied!", errorText |-> "Failed"]

\* a button as addCopyButton creates it; className is the list of its classes
NewButton == [textContent |-> CopyOptions.buttonText, className |-> <<CopyOptions.buttonClass>>, disabled |-> FALSE]

\* classList.add(cls)
ClassListAdd(className, cls) ==
  IF \E i \in 1..Len(className) : className[i] = cls THEN className
  ELSE Append(className, cls)

\* showFeedback(button, text, type): the button it leaves and the closure of
\* the timer it starts
ShowFeedback(button, text, type) ==
  [button |-> [textContent |-> text,
               className |-> ClassListAdd(button.className, "copy-" \o type),
               disabled |-> TRUE],
   timer |-> [textContent |-> button.textContent, className |-> button.className]]

\* setupCopyButtons(): a button for every code block that has none
SetupCopyButtons(buttons, blocks) ==
  [i \in 1..blocks |-> IF i <= Len(buttons) THEN buttons[i] ELSE NewButton]

\* the component after its constructor, on a page with the given code blocks
CopyConstructed(blocks) ==
  [pc |-> "waiting", blocks |-> blocks, buttons |-> <<>>,
   pending |-> <<>>, timers |-> <<>>]

\* variant of CheckCodeBlocks: the loop gives up waiting at its first poll
CheckCodeBlocksOnce ==
  /\ copy.pc = "waiting"
  /\ copy' = [copy EXCEPT !.pc = "ready",
                          !.buttons = SetupCopyButtons(copy.buttons, copy.blocks)]
  /\ UNCHANGED <<vars, sm, tabs, theme, lab, app, wait, deb, thr, destroyed>>

\* init(): one run of checkCodeBlocks; with a code block on the page
\* setupCopyButtons follows, without one the next run is scheduled
CheckCodeBlocks ==
  /\ copy.pc = "waiting"
  /\ IF copy.blocks > 0
     THEN copy' = [copy EXCEPT !.pc = "ready",
                               !.buttons = SetupCopyButtons(copy.buttons, copy.blocks)]
     ELSE copy' = copy
  /\ UNCHANGED <<vars, sm, tabs, theme, lab, app, wait, deb, thr, destroyed>>

\* the page renders its code blocks
RenderCode ==
  /\ copy.blocks = 0
  /\ \E n \in 1..MaxBlocks : copy' = [copy EXCEPT !.blocks = n]
  /\ UNCHANGED <<vars, sm, tabs, theme, lab, app, wait, deb, thr, destroyed>>

(***************************************************************************)
(* ProgressTracker.destroy(): the handlers are detached, the bar is taken  *)
(* out of the page; a poll of init that is scheduled stays scheduled.      *)
(***************************************************************************)
Destroy ==
  /\ ~destroyed
  /\ destroyed' = TRUE
  /\ cleanupFunctions' = <<>>
  /\ progressContainer' = NoBar
  /\ last' = Call("destroy", "", "", NoData, FALSE, FALSE, <<>>)
  /\ UNCHANGED <<localStorage, progress, navContainer, navItems, pc>>
  /\ UNCHANGED otherComponents

(***************************************************************************)
(* The two components of a page from their construction: each polls every  *)
(* 100 ms until its elements are there.  A timer that is set fires, so     *)
(* a poll that is due is run: weak fairness of the two polls.              *)
(***************************************************************************)
InitPoll ==
  /\ localStorage \in [StorageKeys -> InitialItems]
  /\ progress = LoadProgress(localStorage)
  /\ navContainer \in BOOLEAN
  /\ navItems \in (IF navContainer THEN Pages ELSE {<<>>})
  /\ progressContainer = NoBar
  /\ cleanupFunctions = <<>>
  /\ pc = "waiting"
  /\ last = [op |-> "construct", via |-> "", stepId |-> "", data |-> NoData,
             ret |-> FALSE, wrote |-> FALSE, events |-> <<>>,
             wasCompleted |-> FALSE]
  /\ destroyed = FALSE
  /\ copy \in {CopyConstructed(n) : n \in 0..MaxBlocks}
  /\ sm = Absent /\ tabs = Absent /\ theme = Absent /\ lab = Absent
  /\ app = Absent /\ wait = Absent /\ deb = Absent /\ thr = Absent

NextPoll ==
  \/ RenderPage
  \/ CheckDOM
  \/ Destroy
  \/ RenderCode
  \/ CheckCodeBlocks

SpecPoll ==
  /\ InitPoll
  /\ [][NextPoll]_allVars
  /\ WF_allVars(CheckDOM)
  /\ WF_allVars(CheckCodeBlocks)

(***************************************************************************)
(* A page whose copy buttons are set up: clicks, clipboard writes that     *)
(* settle later, and the feedback timers.  The timers all wait             *)
(* options.timeout, so they fire in the order they were started.           *)
(***************************************************************************)
InitCopy ==
  /\ localStorage \in [StorageKeys -> {NoItem}]
  /\ NoTracker
  /\ destroyed = FALSE
  /\ \E n \in 1..MaxBlocks :
       copy = [CopyConstructed(n) EXCEPT !.pc = "ready",
                                         !.buttons = SetupCopyButtons(<<>>, n)]
  /\ sm = Absent /\ tabs = Absent /\ theme = Absent /\ lab = Absent
  /\ app = Absent /\ wait = Absent /\ deb = Absent /\ thr = Absent

\* handleCopyClick(event, codeBlock, button) up to its await: a disabled
\* button receives no click
CopyClick(i) ==
  /\ ~copy.buttons[i].disabled
  /\ Len(copy.pending) + Len(copy.timers) < MaxInFlight
  /\ copy' = [copy EXCEPT !.pending = Append(@, i)]
  /\ UNCHANGED <<vars, sm, tabs, theme, lab, app, wait, deb, thr, destroyed>>

\* handleCopyClick after its await: the write of position k settled
WriteSettles(k, success) ==
  /\ k \in 1..Len(copy.pending)
  /\ LET i == copy.pending[k]
         shown == IF success THEN ShowFeedback(copy.buttons[i], CopyOptions.successText, "success")
                  ELSE ShowFeedback(copy.buttons[i], CopyOptions.errorText, "error")
     IN  copy' = [copy EXCEPT
                    !.pending = SubSeq(@, 1, k - 1) \o SubSeq(@, k + 1, Len(@)),
                    !.buttons[i] = shown.button,
                    !.timers = Append(@, [button |-> i,
                                          textContent |-> shown.timer.textContent,
                                          className |-> shown.timer.className])]
  /\ UNCHANGED <<vars, sm, tabs, theme, lab, app, wait, deb, thr, destroyed>>

\* the callback of the oldest feedback timer
FeedbackTimeout ==
  /\ copy.timers # <<>>
  /\ LET t == Head(copy.timers)
     IN  copy' = [copy EXCEPT
                    !.timers = Tail(@),
                    !.buttons[t.button] = [textContent |-> t.textContent,
                                           className |-> t.className,
                                           disabled |-> FALSE]]
  /\ UNCHANGED <<vars, sm, tabs, theme, lab, app, wait, deb, thr, destroyed>>

NextCopy ==
  \/ \E i \in 1..Len(copy.buttons) : CopyClick(i)
  \/ \E k \in 1..MaxInFlight, success \in BOOLEAN : WriteSettles(k, success)
  \/ FeedbackTimeout

SpecCopy ==
  /\ InitCopy
  /\ [][NextCopy]_allVars
  /\ WF_allVars(\E k \in 1..MaxInFlight, success \in BOOLEAN : WriteSettles(k, success))
  /\ WF_allVars(FeedbackTimeout)

(***************************************************************************)
(* DOMUtils.waitForElement(selector, timeout) (dom.js): one call, the page *)
(* it watches and the clock.  A task of the page changes the DOM by        *)
(* inserting or removing nodes (childList) or by changing attributes; the  *)
(* observer is registered for childList changes of the subtree of the      *)
(* body, and its callback runs at the end of the task that made them.      *)
(***************************************************************************)
\* the longest timeout of a call, in ticks of the clock
MaxTimeout == 2

MutationKinds == {"childList", "attributes"}

\* the kinds of mutation observer.observe(document.body, ...) asks for
Observed == {"childList"}

\* variant of Settle: a later resolve or reject replaces the outcome
SettleAlways(w, outcome, value) ==
  [w EXCEPT !.promise = outcome, !.value = value]

\* resolve(value) / reject(error) of the promise: only the first one counts
Settle(w, outcome, value) ==
  IF w.promise = "pending" THEN [w EXCEPT !.promise = outcome, !.value = value]
  ELSE w

\* the page before the call
NotWaiting(element) ==
  [pc |-> "idle", op |-> "none", kind |-> "", timeout |-> 0, now |-> 0,
   element |-> element, observer |-> "none", timer |-> "none",
   promise |-> "none", value |-> NULL]

\* waitForElement(selector, timeout)
WaitForElement(timeout) ==
  /\ wait.pc = "idle"
  /\ LET w == [wait EXCEPT !.pc = "called", !.op = "waitForElement", !.kind = "",
                           !.timeout = timeout, !.promise = "pending"]
     IN  wait' = IF wait.element
                 THEN Settle(w, "resolved", "element")
                 ELSE [w EXCEPT !.observer = "observing", !.timer = "set"]
  /\ UNCHANGED <<vars, sm, tabs, theme, lab, copy, app, deb, thr, destroyed>>

\* a task changes the DOM; the observer's callback follows a change it
\* observes
DOMMutation(kind, element) ==
  /\ kind = "childList" \/ element # wait.element
  /\ LET w == [wait EXCEPT !.op = "mutation", !.kind = kind, !.element = element]
     IN  wait' = IF w.observer = "observing" /\ kind \in Observed /\ element
                 THEN Settle([w EXCEPT !.observer = "disconnected"], "resolved", "element")
                 ELSE w
  /\ UNCHANGED <<vars, sm, tabs, theme, lab, copy, app, deb, thr, destroyed>>

\* the clock advances; a timer fires when it is due
WaitTick ==
  /\ wait.now < MaxTimeout
  /\ wait.timer = "set" => wait.now < wait.timeout
  /\ wait.pc = "called"
  /\ wait' = [wait EXCEPT !.op = "tick", !.kind = "", !.now = @ + 1]
  /\ UNCHANGED <<vars, sm, tabs, theme, lab, copy, app, deb, thr, destroyed>>

\* the callback of setTimeout(..., timeout)
WaitTimeout ==
  /\ wait.timer = "set"
  /\ wait.now = wait.timeout
  /\ wait' = Settle([wait EXCEPT !.op = "timeout", !.kind = "", !.timer = "fired",
                                 !.observer = "disconnected"],
                    "rejected", "error")
  /\ UNCHANGED <<vars, sm, tabs, theme, lab, copy, app, deb, thr, destroyed>>

InitWait ==
  /\ localStorage \in [StorageKeys -> {NoItem}]
  /\ NoTracker
  /\ destroyed = FALSE
  /\ wait \in {NotWaiting(element) : element \in BOOLEAN}
  /\ sm = Absent /\ tabs = Absent /\ theme = Absent /\ lab = Absent
  /\ copy = Absent /\ app = Absent /\ deb = Absent /\ thr = Absent

NextWait ==
  \/ \E timeout \in 1..MaxTimeout : WaitForElement(timeout)
  \/ \E kind \in MutationKinds, element \in BOOLEAN : DOMMutation(kind, element)
  \/ WaitTick
  \/ WaitTimeout

\* time passes and a timer that is due fires
SpecWait ==
  /\ InitWait
  /\ [][NextWait]_allVars
  /\ WF_allVars(WaitTick)
  /\ WF_allVars(WaitTimeout)

(***************************************************************************)
(* MCPWorkshopApp (app.js): the singleton, its init() calls and destroy(). *)
(* init() is async: it gives up control at `await this.waitForDOM()` and   *)
(* at `await this.initializeComponents()`, and sets isInitialized after    *)
(* the second.                                                             *)
(***************************************************************************)
\* the most init() calls running together
MaxInits == 3

\* the app after its constructor and the script's auto-initialization
AppConstructed(readyState) ==
  [op |-> "construct", readyState |-> readyState, isInitialized |-> FALSE,
   inits |-> IF readyState = "loading" THEN <<>> ELSE <<"waitForDOM">>,
   autoInit |-> readyState = "loading",
   constructed |-> 0, registrations |-> 0]

\* variant of EnterInit: the call marks the app before its first await
EnterInitMarking(a) ==
  IF a.isInitialized THEN a
  ELSE [a EXCEPT !.inits = Append(@, "waitForDOM"), !.isInitialized = TRUE]

\* init() up to `await this.waitForDOM()`
EnterInit(a) ==
  IF a.isInitialized THEN a
  ELSE [a EXCEPT !.inits = Append(@, "waitForDOM")]

\* a call of init() by the page
AppInit ==
  /\ Len(app.inits) < MaxInits
  /\ app' = [EnterInit(app) EXCEPT !.op = "init"]
  /\ UNCHANGED <<vars, sm, tabs, theme, lab, copy, wait, deb, thr, destroyed>>

\* the document finishes loading; the script's listener calls init()
DOMContentLoaded ==
  /\ app.readyState = "loading"
  /\ LET a == [app EXCEPT !.op = "DOMContentLoaded", !.readyState = "interactive",
                          !.autoInit = FALSE]
     IN  app' = IF app.autoInit /\ Len(app.inits) < MaxInits THEN EnterInit(a) ELSE a
  /\ app.autoInit => Len(app.inits) < MaxInits
  /\ UNCHANGED <<vars, sm, tabs, theme, lab, copy, wait, deb, thr, destroyed>>

\* the k-th running init() goes on after an await: initializeComponents
\* after the first, setupGlobalEvents and isInitialized = true after the
\* second
InitResumes(k) ==
  /\ k \in 1..Len(app.inits)
  /\ IF app.inits[k] = "waitForDOM"
     THEN /\ app.readyState # "loading"
          /\ app' = [app EXCEPT !.op = "initializeComponents",
                                !.inits[k] = "initializeComponents",
                                !.constructed = @ + 1]
     ELSE app' = [app EXCEPT !.op = "setupGlobalEvents",
                             !.inits = SubSeq(@, 1, k - 1) \o SubSeq(@, k + 1, Len(@)),
                             !.registrations = @ + 1,
                             !.isInitialized = TRUE]
  /\ UNCHANGED <<vars, sm, tabs, theme, lab, copy, wait, deb, thr, destroyed>>

\* destroy()
AppDestroy ==
  /\ app' = [app EXCEPT !.op = "destroy", !.constructed = 0, !.registrations = 0,
                        !.isInitialized = FALSE]
  /\ UNCHANGED <<vars, sm, tabs, theme, lab, copy, wait, deb, thr, destroyed>>

InitApp ==
  /\ localStorage \in [StorageKeys -> {NoItem}]
  /\ NoTracker
  /\ destroyed = FALSE
  /\ app \in {AppConstructed(readyState) : readyState \in {"loading", "interactive"}}
  /\ sm = Absent /\ tabs = Absent /\ theme = Absent /\ lab = Absent
  /\ copy = Absent /\ wait = Absent /\ deb = Absent /\ thr = Absent

NextApp ==
  \/ AppInit
  \/ DOMContentLoaded
  \/ \E k \in 1..MaxInits : InitResumes(k)
  \/ AppDestroy

SpecApp == InitApp /\ [][NextApp]_allVars

(***************************************************************************)
(* DOMUtils.debounce(func, wait) with immediate = false and                *)
(* DOMUtils.throttle(func, limit) (dom.js): the function each returns, its *)
(* calls, its timer and the clock.  A timer fires when it is due.          *)
(***************************************************************************)
\* the time the scenarios of debounce and throttle last, in ticks
MaxTime == 4

\* wait and limit, in ticks
Delays == {1, 2}

\* the arguments of a call
CallArgs == {"a", "b"}

\* no timer set (timeout undefined or null)
NoTimer == -1

\* the debounced function right after debounce(func, wait)
Debounced(w) ==
  [op |-> "debounce", wait |-> w, now |-> 0, timeout |-> NoTimer, args |-> "",
   firstCall |-> [at |-> NoTimer, args |-> ""],
   lastCall |-> [at |-> NoTimer, args |-> ""], bursts |-> 0, invoked |-> <<>>]

\* variant of ExecutedFunction: the timer of a burst keeps the arguments of
\* the burst's first call
ExecutedFunctionFirstArgs(args) ==
  /\ deb.now + deb.wait <= MaxTime
  /\ deb' = [deb EXCEPT !.op = "call",
                        !.timeout = deb.now + deb.wait,
                        !.args = IF deb.timeout = NoTimer THEN args ELSE @,
                        !.firstCall = IF deb.timeout = NoTimer
                                      THEN [at |-> deb.now, args |-> args] ELSE @,
                        !.lastCall = [at |-> deb.now, args |-> args],
                        !.bursts = IF deb.timeout = NoTimer THEN @ + 1 ELSE @]
  /\ UNCHANGED <<vars, sm, tabs, theme, lab, copy, app, wait, thr, destroyed>>

\* executedFunction(...args): clearTimeout(timeout) and
\* timeout = setTimeout(later, wait), later holding the arguments of this
\* call; a call with no timer pending starts a burst
ExecutedFunction(args) ==
  /\ deb.now + deb.wait <= MaxTime
  /\ deb' = [deb EXCEPT !.op = "call",
                        !.timeout = deb.now + deb.wait,
                        !.args = args,
                        !.firstCall = IF deb.timeout = NoTimer
                                      THEN [at |-> deb.now, args |-> args] ELSE @,
                        !.lastCall = [at |-> deb.now, args |-> args],
                        !.bursts = IF deb.timeout = NoTimer THEN @ + 1 ELSE @]
  /\ UNCHANGED <<vars, sm, tabs, theme, lab, copy, app, wait, thr, destroyed>>

\* later(): timeout = null and func(...args)
Later ==
  /\ deb.timeout # NoTimer
  /\ deb.now = deb.timeout
  /\ deb' = [deb EXCEPT !.op = "later",
                        !.timeout = NoTimer,
                        !.invoked = Append(@, [at |-> deb.now, args |-> deb.args])]
  /\ UNCHANGED <<vars, sm, tabs, theme, lab, copy, app, wait, thr, destroyed>>

DebounceTick ==
  /\ deb.now < MaxTime
  /\ deb.timeout # NoTimer => deb.now < deb.timeout
  /\ deb' = [deb EXCEPT !.op = "tick", !.now = @ + 1]
  /\ UNCHANGED <<vars, sm, tabs, theme, lab, copy, app, wait, thr, destroyed>>

InitDebounce ==
  /\ localStorage \in [StorageKeys -> {NoItem}]
  /\ NoTracker
  /\ destroyed = FALSE
  /\ deb \in {Debounced(w) : w \in Delays}
  /\ sm = Absent /\ tabs = Absent /\ theme = Absent /\ lab = Absent
  /\ copy = Absent /\ app = Absent /\ wait = Absent /\ thr = Absent

NextDebounce ==
  \/ \E args \in CallArgs : ExecutedFunction(args)
  \/ Later
  \/ DebounceTick

SpecDebounce ==
  /\ InitDebounce
  /\ [][NextDebounce]_allVars
  /\ WF_allVars(DebounceTick)
  /\ WF_allVars(Later)

\* the throttled function right after throttle(func, limit)
Throttled(limit) ==
  [op |-> "throttle", limit |-> limit, now |-> 0, inThrottle |-> FALSE,
   timeout |-> NoTimer, lastCall |-> [at |-> NoTimer, args |-> ""],
   invoked |-> <<>>]

\* variant of ThrottledCall: inThrottle is not consulted
ThrottledCallUnchecked(args) ==
  /\ thr.now + thr.limit <= MaxTime
  /\ Len(thr.invoked) < MaxTime
  /\ thr' = [thr EXCEPT !.op = "call",
                        !.lastCall = [at |-> thr.now, args |-> args],
                        !.invoked = Append(@, [at |-> thr.now, args |-> args]),
                        !.inThrottle = TRUE,
                        !.timeout = thr.now + thr.limit]
  /\ UNCHANGED <<vars, sm, tabs, theme, lab, copy, app, wait, deb, destroyed>>

\* the function throttle returns: outside the window func.apply(this, args),
\* inThrottle = true and a timer of limit; inside the window nothing
ThrottledCall(args) ==
  /\ ~thr.inThrottle => thr.now + thr.limit <= MaxTime
  /\ thr' = IF ~thr.inThrottle
            THEN [thr EXCEPT !.op = "call",
                             !.lastCall = [at |-> thr.now, args |-> args],
                             !.invoked = Append(@, [at |-> thr.now, args |-> args]),
                             !.inThrottle = TRUE,
                             !.timeout = thr.now + thr.limit]
            ELSE [thr EXCEPT !.op = "call",
                             !.lastCall = [at |-> thr.now, args |-> args]]
  /\ UNCHANGED <<vars, sm, tabs, theme, lab, copy, app, wait, deb, destroyed>>

\* the timer's callback: inThrottle = false
ThrottleReset ==
  /\ thr.timeout # NoTimer
  /\ thr.now = thr.timeout
  /\ thr' = [thr EXCEPT !.op = "reset", !.inThrottle = FALSE, !.timeout = NoTimer]
  /\ UNCHANGED <<vars, sm, tabs, theme, lab, copy, app, wait, deb, destroyed>>

ThrottleTick ==
  /\ thr.now < MaxTime
  /\ thr.timeout # NoTimer => thr.now < thr.timeout
  /\ thr' = [thr EXCEPT !.op = "tick", !.now = @ + 1]
  /\ UNCHANGED <<vars, sm, tabs, theme, lab, copy, app, wait, deb, destroyed>>

InitThrottle ==
  /\ localStorage \in [StorageKeys -> {NoItem}]
  /\ NoTracker
  /\ destroyed = FALSE
  /\ thr \in {Throttled(limit) : limit \in Delays}
  /\ sm = Absent /\ tabs = Absent /\ theme = Absent /\ lab = Absent
  /\ copy = Absent /\ app = Absent /\ wait = Absent /\ deb = Absent

NextThrottle ==
  \/ \E args \in CallArgs : ThrottledCall(args)
  \/ ThrottleReset
  \/ ThrottleTick

SpecThrottle ==
  /\ InitThrottle
  /\ [][NextThrottle]_allVars
  /\ WF_allVars(ThrottleTick)
  /\ WF_allVars(ThrottleReset)

(***************************************************************************)
(* Vocabulary of the properties.                                           *)
(***************************************************************************)
Mutations == {"markStepCompleted", "markStepIncomplete", "resetProgress", "importProgress"}

\* the call passed the argument check at the head of the operation
Accepted(call) ==
  CASE call.op \in {"markStepCompleted", "markStepIncomplete"} -> ~Falsy(call.stepId)
    [] call.op = "importProgress" -> ~InvalidData(call.data)
    [] call.op = "resetProgress" -> TRUE
    [] OTHER -> FALSE

\* the event each operation is documented to dispatch
EventOf(op) ==
  CASE op = "markStepCompleted" -> "progress:step-completed"
    [] op = "markStepIncomplete" -> "progress:step-incompleted"
    [] op = "resetProgress" -> "progress:progress-reset"
    [] op = "importProgress" -> "progress:progress-imported"
    [] OTHER -> ""

\* the step ids a record of the model may hold
KnownIds == StepIds \cup MarkerIds

C2_PercentageContract ==
  pc = "ready" =>
    LET s == getProgressSummary
    IN  /\ s.percentage \in 0..100
        /\ s.totalSteps = 0 => s.percentage = 0
        /\ s.totalSteps > 0 =>
             /\ 2 * s.totalSteps * s.percentage <= 200 * s.completedSteps + s.totalSteps
             /\ 200 * s.completedSteps + s.totalSteps < 2 * s.totalSteps * (s.percentage + 1)

(***************************************************************************)
(* C3: the summary satisfies 0 <= completedSteps <= totalSteps, also for a *)
(* record loaded from storage that was written on another page.  Stated as *)
(* the claim, for the states of an initialized tracker; the code violates  *)
(* it.                                                                     *)
(***************************************************************************)
C3_CompletedWithinTotal ==
  pc = "ready" =>
    LET s == getProgressSummary
    IN  0 <= s.completedSteps /\ s.completedSteps <= s.totalSteps

C5_MarkersMatchStore ==
  (/\ pc = "ready"
   /\ \/ last.op = "init"
      \/ last.op \in Mutations /\ last.ret)
  => \A i \in 1..Len(navItems) :
       navItems[i].step # "" =>
         (navItems[i].completed <=> isStepCompleted(navItems[i].step))

(***************************************************************************)
(* C6: when the storage write of an accepted operation fails, the          *)
(* operation returns false and what isStepCompleted and getProgressSummary *)
(* report is the same as before the call.  Stated as the claim; the code   *)
(* violates it.                                                            *)
(***************************************************************************)
C6_FailedWriteLeavesState ==
  [][(last'.op \in Mutations /\ Accepted(last') /\ ~last'.wrote) =>
       /\ last'.ret = FALSE
       /\ getProgressSummary' = getProgressSummary
       /\ \A x \in KnownIds : isStepCompleted(x)' = isStepCompleted(x)]_vars

(***************************************************************************)
(* C7: after every mutation whose write succeeded, the text stored under   *)
(* 'mcp_progress' parses to exactly the in-memory record, so a freshly     *)
(* constructed tracker loads that record.                                  *)
(***************************************************************************)
C7_StoredIsRecord ==
  (last.op \in Mutations /\ last.ret) =>
    LET item == localStorage["mcp_progress"]
    IN  /\ item.present
        /\ ValidJSON(item.text)
        /\ JSONparse(item.text) = progress
        /\ LoadProgress(localStorage) = progress

\* an import has just saved a record with a false entry next to a true one
C7_Witness ==
  /\ last.op = "importProgress"
  /\ last.ret
  /\ Len(progress) = 2
  /\ \E i, j \in 1..Len(progress) : progress[i].v /\ ~progress[j].v

(***************************************************************************)
(* C8 (as claimed): every accepted mutating operation dispatches exactly   *)
(* one event, of its name, carrying the summary of the state after the     *)
(* mutation.                                                               *)
(***************************************************************************)
C8_EveryAcceptedDispatches ==
  (last.op \in Mutations /\ Accepted(last)) =>
    /\ Len(last.events) = 1
    /\ last.events[1].type = EventOf(last.op)
    /\ last.events[1].summary = getProgressSummary

(***************************************************************************)
(* C8 (amended): an accepted mutating operation whose storage write        *)
(* succeeds dispatches exactly one event, of its name, carrying the        *)
(* summary of the state after the mutation; one whose write fails          *)
(* dispatches none.                                                        *)
(***************************************************************************)
C8_SavedDispatchesOnce ==
  (last.op \in Mutations /\ Accepted(last)) =>
    IF last.ret
    THEN /\ Len(last.events) = 1
         /\ last.events[1].type = EventOf(last.op)
         /\ last.events[1].summary = getProgressSummary
    ELSE last.events = <<>>

\* a step has just been marked incomplete, saved and announced
C8_Witness ==
  /\ last.op = "markStepIncomplete"
  /\ last.wasCompleted
  /\ last.ret
  /\ Len(last.events) = 1
  /\ last.events[1].type = "progress:step-incompleted"

(***************************************************************************)
(* C9 (as claimed): markStepCompleted on an already completed step leaves  *)
(* the record and the summary as they were, and still writes the record    *)
(* and dispatches progress:step-completed.                                 *)
(***************************************************************************)
C9_RepeatAlwaysNotifies ==
  [][(/\ last'.op = "markStepCompleted"
      /\ ~Falsy(last'.stepId)
      /\ isStepCompleted(last'.stepId)) =>
       /\ progress' = progress
       /\ getProgressSummary' = getProgressSummary
       /\ last'.wrote
       /\ Len(last'.events) = 1
       /\ last'.events[1].type = "progress:step-completed"]_vars

(***************************************************************************)
(* C9 (amended): markStepCompleted on an already completed step leaves the *)
(* record and the summary as they were; when the storage write succeeds it *)
(* writes the record again and dispatches progress:step-completed again,   *)
(* and when the write fails it returns false and dispatches nothing.       *)
(***************************************************************************)
C9_RepeatIsIdempotent ==
  [][(/\ last'.op = "markStepCompleted"
      /\ ~Falsy(last'.stepId)
      /\ isStepCompleted(last'.stepId)) =>
       /\ progress' = progress
       /\ getProgressSummary' = getProgressSummary
       /\ IF last'.ret
          THEN /\ last'.wrote
               /\ localStorage'["mcp_progress"] =
                    [present |-> TRUE, text |-> JSONstringify(progress)]
               /\ Len(last'.events) = 1
               /\ last'.events[1].type = "progress:step-completed"
          ELSE /\ localStorage' = localStorage
               /\ last'.events = <<>>]_vars

\* an already completed step has been marked completed again, and saved
C9_Witness ==
  /\ last.op = "markStepCompleted"
  /\ last.wasCompleted
  /\ last.ret
  /\ Len(last.events) = 1

(***************************************************************************)
(* C10: importProgress(exportProgress()) leaves getProgressSummary() as it *)
(* was: the summary after the import is the one the export carried.        *)
(***************************************************************************)
C10_ExportImportRoundTrip ==
  (last.op = "importProgress" /\ last.data.hasSummary) =>
    getProgressSummary = last.data.summary

\* an export with a completed and an uncompleted entry has been re-imported
C10_Witness ==
  /\ last.op = "importProgress"
  /\ last.data.hasSummary
  /\ last.data.summary.completedSteps > 0
  /\ Len(progress) = 2

(***************************************************************************)
(* C11: markStepCompleted('') and markStepCompleted(undefined) return      *)
(* false, leave the record, the persisted value, the markers and the bar   *)
(* as they were and dispatch no event.                                     *)
(***************************************************************************)
C11_FalsyIdRejected ==
  [][(last'.op = "markStepCompleted" /\ last'.stepId \in {"", UNDEF})
       => /\ last'.ret = FALSE
          /\ last'.events = <<>>
          /\ progress' = progress
          /\ localStorage' = localStorage
          /\ navItems' = navItems
          /\ progressContainer' = progressContainer]_vars

\* markStepCompleted(undefined) has just been rejected on a tracker that
\* holds a record and has rendered its page
C11_Witness ==
  /\ last.op = "markStepCompleted"
  /\ last.stepId = UNDEF
  /\ ~last.ret
  /\ pc = "ready"
  /\ Len(progress) > 0

(***************************************************************************)
(* C12: importProgress(data) returns false and changes nothing when data   *)
(* is no object; otherwise the record afterwards is data.progress exactly  *)
(* (the empty record when data has no progress), and the new record is the *)
(* persisted value.                                                        *)
(***************************************************************************)
\* what importProgress(data) is documented to leave in the record
DataProgress(data) == IF data.hasProgress THEN data.progress ELSE EmptyObject

\* the item a successful save of rec leaves under the tracker's key
SavedItem(rec) == [present |-> TRUE, text |-> JSONstringify(rec)]

ImportRejects ==
  (last'.op = "importProgress" /\ InvalidData(last'.data))
    => /\ last'.ret = FALSE
       /\ last'.events = <<>>
       /\ progress' = progress
       /\ localStorage' = localStorage
       /\ navItems' = navItems
       /\ progressContainer' = progressContainer

C12_ImportReplacesAndPersists ==
  [][/\ ImportRejects
     /\ (last'.op = "importProgress" /\ ~InvalidData(last'.data))
          => /\ progress' = DataProgress(last'.data)
             /\ localStorage'[GetKey("mcp", StorageKey)] = SavedItem(progress')]_vars

(***************************************************************************)
(* C12, as the code has it: the record is replaced by data.progress in     *)
(* every accepted call; the new record is the persisted value when the     *)
(* call returns true, and the persisted value is left alone when the save  *)
(* fails and the call returns false.                                       *)
(***************************************************************************)
C12_ImportReplaces ==
  [][/\ ImportRejects
     /\ (last'.op = "importProgress" /\ ~InvalidData(last'.data))
          => /\ progress' = DataProgress(last'.data)
             /\ last'.ret
                  => localStorage'[GetKey("mcp", StorageKey)] = SavedItem(progress')
             /\ ~last'.ret => localStorage' = localStorage]_vars

\* an import has just replaced a record with a completed step by a
\* non-empty record without that step, and has saved it
C12_Witness ==
  /\ last.op = "importProgress"
  /\ last.ret
  /\ last.wasCompleted
  /\ last.data.hasProgress
  /\ Len(progress) = 1
  /\ ~HasOwn(progress, "1")
  /\ localStorage[GetKey("mcp", StorageKey)] = SavedItem(progress)

(***************************************************************************)
(* C13: every key of the record, and of the persisted record, maps to      *)
(* true: no false entry is ever retained.                                  *)
(***************************************************************************)
AllTrue(obj) == \A i \in 1..Len(obj) : obj[i].v

\* the record and the persisted record hold no false entry
Sparse == AllTrue(progress) /\ AllTrue(LoadProgress(localStorage))

C13_SparseRecord == Sparse

(***************************************************************************)
(* C13, as the code has it: markStepCompleted, markStepIncomplete and      *)
(* resetProgress add no false entry, and markStepIncomplete deletes the    *)
(* key; importProgress keeps the values of data.progress as they are, so   *)
(* the record and the persisted record are free of false entries as long   *)
(* as every imported record is.                                            *)
(***************************************************************************)
C13_MutationsKeepSparse ==
  [][/\ (/\ last'.op \in Mutations
         /\ Sparse
         /\ last'.op = "importProgress" => AllTrue(DataProgress(last'.data)))
          => Sparse'
     /\ (last'.op = "markStepIncomplete" /\ ~Falsy(last'.stepId))
          => ~HasOwn(progress', last'.stepId)]_vars

\* a completed step has just been marked incomplete and the save went
\* through: the key is gone from a record that still has another entry
C13_Witness ==
  /\ last.op = "markStepIncomplete"
  /\ last.wasCompleted
  /\ last.ret
  /\ Len(progress) > 0
  /\ Sparse
  /\ localStorage[GetKey("mcp", StorageKey)] = SavedItem(progress)

(***************************************************************************)
(* C14: save never throws; it returns true when the value was written      *)
(* under '{namespace}_{key}', and on any failure it returns false and the  *)
(* value stored before under that key is left as it was.                   *)
(***************************************************************************)
C14_SaveContract ==
  [][sm'.op = "save"
       => /\ sm'.ret = ~sm'.threw
          /\ IF sm'.ret
             THEN /\ localStorage'[GetKey(sm'.namespace, sm'.key)] =
                       [present |-> TRUE, text |-> JSONstringify(sm'.data)]
                  /\ \A k \in FullKeys \ {GetKey(sm'.namespace, sm'.key)} :
                       localStorage'[k] = localStorage[k]
             ELSE localStorage' = localStorage]_allVars

\* a save has just failed on a key that holds another value, saved before
C14_Witness ==
  /\ sm.op = "save"
  /\ sm.threw
  /\ ~sm.ret
  /\ sm.saved[GetKey(sm.namespace, sm.key)].any
  /\ sm.saved[GetKey(sm.namespace, sm.key)].data # sm.data
  /\ localStorage[GetKey(sm.namespace, sm.key)] =
       [present |-> TRUE,
        text |-> JSONstringify(sm.saved[GetKey(sm.namespace, sm.key)].data)]

(***************************************************************************)
(* C15: load never throws; it returns the default when the key is absent,  *)
(* when the stored text is corrupt and when storage is unavailable, and    *)
(* otherwise the value last saved with success under that key.             *)
(***************************************************************************)
C15_LoadContract ==
  sm.op = "load"
    => LET item == localStorage[GetKey(sm.namespace, sm.key)]
       IN  sm.value = IF sm.threw \/ ~item.present \/ ~ValidJSON(item.text)
                      THEN sm.data
                      ELSE sm.saved[GetKey(sm.namespace, sm.key)].data

\* a load has just returned a saved value that differs from the default
C15_Witness ==
  /\ sm.op = "load"
  /\ ~sm.threw
  /\ sm.saved[GetKey(sm.namespace, sm.key)].any
  /\ sm.value = sm.saved[GetKey(sm.namespace, sm.key)].data
  /\ sm.value # sm.data

\* a load of a corrupt text has just returned the default
C15_WitnessCorrupt ==
  /\ sm.op = "load"
  /\ ~sm.threw
  /\ localStorage[GetKey(sm.namespace, sm.key)].present
  /\ ~ValidJSON(localStorage[GetKey(sm.namespace, sm.key)].text)
  /\ sm.value = sm.data
  /\ sm.data # EmptyObject

(***************************************************************************)
(* C16: for two instances with different namespaces, no save, remove or    *)
(* clear on one changes what load returns on the other; clear removes      *)
(* every key of its own namespace and leaves every key of every other      *)
(* namespace in place.                                                     *)
(***************************************************************************)
C16_NamespaceIsolation ==
  [][sm'.op \in {"save", "remove", "clear"}
       => /\ \A namespace \in Namespaces \ {sm'.namespace}, key \in KeyNames :
               /\ localStorage'[GetKey(namespace, key)] = localStorage[GetKey(namespace, key)]
               /\ \A defaultValue \in DefaultValues :
                    StorageLoad(localStorage', namespace, key, defaultValue) =
                      StorageLoad(localStorage, namespace, key, defaultValue)
          /\ (sm'.op = "clear" /\ sm'.ret)
               => \A key \in KeyNames : ~localStorage'[GetKey(sm'.namespace, key)].present]_allVars

(***************************************************************************)
(* C17: a click on an Incomplete marker makes it Complete, and no click on *)
(* any marker makes a Complete marker Incomplete.                          *)
(***************************************************************************)
\* the step of this transition is a click on a marker
Clicked == last'.op = "markStepCompleted" /\ last'.via = "click"

\* the marker the click was on
ClickedMarker == CHOOSE i \in 1..Len(navItems) : navItems[i].step = last'.stepId

NoMarkerReverts ==
  Clicked => /\ Len(navItems') = Len(navItems)
             /\ \A i \in 1..Len(navItems) : navItems[i].completed => navItems'[i].completed

C18_LastWriteWins ==
  tabs.lastWriter # ""
    => localStorage[GetKey("mcp", StorageKey)] =
         SavedItem(tabs.tracker[tabs.lastWriter].progress)

(***************************************************************************)
(* C19: every 'themechange' event dispatched by a theme change (toggle or  *)
(* setTheme) carries the new theme as theme and the theme in effect        *)
(* immediately before the change as previousTheme.                         *)
(***************************************************************************)
C19_ThemeChangeDetail ==
  [][theme'.op \in {"toggle", "click", "setTheme", "systemChange"}
       => \A i \in 1..Len(theme'.events) :
            /\ theme'.events[i].theme = theme'.currentTheme
            /\ theme'.events[i].previousTheme = theme.currentTheme]_allVars

(***************************************************************************)
(* C20: every 'lab:step-change' event dispatched by a step navigation      *)
(* (click, nextStep, previousStep, navigateToStep) carries the step        *)
(* navigated to as stepNumber and the step that was current immediately    *)
(* before the navigation as previousStep.                                  *)
(***************************************************************************)
C20_StepChangeDetail ==
  [][lab'.op \in {"click", "nextStep", "previousStep", "navigateToStep"}
       => \A i \in 1..Len(lab'.events) :
            /\ lab'.events[i].stepNumber = lab'.target
            /\ lab'.events[i].previousStep = lab.currentStep]_allVars

(***************************************************************************)
(* C21: after any sequence of toggle() and setTheme(x) calls the persisted *)
(* 'theme_preference', when present, is "dark" or "light" and equals the   *)
(* current theme; setTheme with another value changes neither the current  *)
(* theme nor the persisted preference.                                     *)
(***************************************************************************)
\* the item under 'theme_preference'
Preference == localStorage[GetKey("theme", "preference")]

\* the step of this transition is a call of toggle or setTheme (a press of
\* the button calls toggle)
ThemeCalled == theme'.op \in {"toggle", "click", "setTheme"}

InvalidThemeIgnored ==
  (ThemeCalled /\ theme'.arg \notin Themes)
    => /\ theme'.currentTheme = theme.currentTheme
       /\ theme'.lightMode = theme.lightMode
       /\ theme'.events = <<>>
       /\ localStorage' = localStorage

C21_PreferenceIsTheme ==
  [][/\ InvalidThemeIgnored
     /\ (ThemeCalled /\ Preference'.present)
          => /\ Preference'.text \in {JSONstringifyString(t) : t \in Themes}
             /\ Preference'.text = JSONstringifyString(theme'.currentTheme)]_allVars

(***************************************************************************)
(* C21, as the code has it: a toggle() or setTheme(x) with a valid x makes *)
(* x the current theme and, when the write succeeds, the persisted         *)
(* preference; when the write fails the persisted value stays as it was.   *)
(* setTheme with another value changes nothing.                            *)
(***************************************************************************)
C21_PreferenceIsThemeWhenSaved ==
  [][/\ InvalidThemeIgnored
     /\ (ThemeCalled /\ theme'.arg \in Themes)
          => /\ theme'.currentTheme = theme'.arg
             /\ theme'.saved
                  => Preference' = [present |-> TRUE,
                                    text |-> JSONstringifyString(theme'.currentTheme)]
             /\ ~theme'.saved => localStorage' = localStorage]_allVars

\* a toggle has just replaced the persisted preference by the new theme
C21_Witness ==
  /\ theme.op = "toggle"
  /\ theme.saved
  /\ theme.currentTheme = "light"
  /\ Preference = [present |-> TRUE, text |-> JSONstringifyString("light")]

(***************************************************************************)
(* C24: as long as the user has never toggled or set a theme, every system *)
(* colour-scheme change switches the theme to match the system; once the   *)
(* user has set a preference, system changes are ignored.                  *)
(***************************************************************************)
C24_FollowsSystemUntilSet ==
  [][theme'.op = "systemChange"
       => IF theme.manual
          THEN /\ theme'.currentTheme = theme.currentTheme
               /\ theme'.events = <<>>
               /\ localStorage' = localStorage
          ELSE theme'.currentTheme = theme'.arg]_allVars

(***************************************************************************)
(* C25: after any sequence of step navigations (handleStepClick,           *)
(* navigateToStep, nextStep, previousStep) at most one navigation item     *)
(* carries the active class, and the data-step of that item is             *)
(* currentStep: the highlighted item is the one whose content is shown.    *)
(***************************************************************************)
ActiveItems == {i \in 1..Len(lab.navItems) : lab.navItems[i].active}

C25_ActiveIsCurrent ==
  lab.op \in {"click", "nextStep", "previousStep", "navigateToStep"}
    => /\ Cardinality(ActiveItems) <= 1
       /\ \A i \in ActiveItems :
            /\ lab.navItems[i].step = lab.currentStep
            /\ lab.currentStep \in DOMAIN lab.display
            /\ lab.display[lab.currentStep] = "block"

(***************************************************************************)
(* C22: the polling loops of the tracker's and the copy component's        *)
(* initialization end only on success.  When the awaited elements (the     *)
(* navigation container and a marker; a code block) are there at a poll,   *)
(* the initialization completes, and the progress bar is built in the step *)
(* that completes it and in no other; without the elements no poll         *)
(* completes it, so it stays waiting for as long as they are missing.      *)
(***************************************************************************)
TrackerElements == navContainer /\ Len(navItems) > 0

C22_PollingUntilSuccess ==
  /\ (pc = "waiting" /\ TrackerElements) ~> (pc = "ready")
  /\ (copy.pc = "waiting" /\ copy.blocks > 0) ~> (copy.pc = "ready")
  /\ [][(pc = "waiting" /\ pc' = "ready")
          <=> (~progressContainer.exists /\ progressContainer'.exists)]_allVars
  /\ [][pc = "ready" => pc' = "ready"]_allVars
  /\ [][~TrackerElements' => pc' = "waiting"]_allVars
  /\ [][copy.blocks' = 0 => copy.pc' = "waiting"]_allVars

C22_Witness ==
  /\ pc = "ready" /\ last.op = "init" /\ progressContainer.exists
  /\ copy.pc = "ready" /\ Len(copy.buttons) = copy.blocks /\ copy.blocks > 0

(***************************************************************************)
(* C26: whatever clicks a copy button got, also clicks that arrived while  *)
(* an earlier clipboard write was pending, once its writes have settled    *)
(* and its feedback timers have fired the button has the label and the     *)
(* class it was created with and is enabled.                               *)
(***************************************************************************)
ButtonAtRest(i) ==
  /\ \A k \in 1..Len(copy.pending) : copy.pending[k] # i
  /\ \A k \in 1..Len(copy.timers) : copy.timers[k].button # i

C26_ButtonRestored ==
  \A i \in 1..Len(copy.buttons) : ButtonAtRest(i) => copy.buttons[i] = NewButton

(***************************************************************************)
(* C28: after destroy() of the tracker no click handler of the tracker is  *)
(* attached and the page has no progress bar, also when destroy() was      *)
(* called while init was polling.                                          *)
(***************************************************************************)
C28_DestroyedStaysClean ==
  destroyed => cleanupFunctions = <<>> /\ ~progressContainer.exists

(***************************************************************************)
(* C23: waitForElement settles exactly once: it resolves with the element  *)
(* when the element is there at the call or is there after a mutation      *)
(* that happens while the promise is pending, and otherwise rejects when   *)
(* the timeout has elapsed; a settled call has no connected observer and   *)
(* keeps its outcome.                                                      *)
(***************************************************************************)
Settled == wait.promise \in {"resolved", "rejected"}

\* the part that holds for every kind of mutation
C23_SettlesOnce ==
  /\ [][Settled => wait.promise' = wait.promise /\ wait.value' = wait.value]_allVars
  /\ [][wait.pc = "idle" /\ wait.pc' = "called" /\ wait.element
          => wait.promise' = "resolved" /\ wait.value' = "element"]_allVars
  /\ [][wait.promise = "pending" /\ wait.op' = "timeout"
          => wait.promise' = "rejected" /\ wait.now = wait.timeout]_allVars
  /\ [](Settled => wait.observer # "observing")
  /\ [](wait.promise = "rejected" => wait.timer = "fired")
  /\ (wait.pc = "called") ~> Settled

\* the claim as stated: any mutation that makes the element appear
C23_ResolvesOnMutation ==
  [][wait.promise = "pending" /\ wait.op' = "mutation" /\ wait.element'
       => wait.promise' = "resolved"]_allVars

\* as amended: a mutation of the kind the observer is registered for
C23_ResolvesOnChildList ==
  /\ C23_SettlesOnce
  /\ [][wait.promise = "pending" /\ wait.op' = "mutation" /\ wait.element'
          /\ wait.kind' = "childList"
          => wait.promise' = "resolved" /\ wait.value' = "element"]_allVars

C23_Witness ==
  /\ wait.promise = "resolved" /\ wait.op = "mutation" /\ wait.observer = "disconnected"
  /\ wait.timer = "set" /\ wait.now > 0

(***************************************************************************)
(* C27: between two destroys the app initializes at most once: however     *)
(* many init() calls are made, one of them while another awaits the DOM    *)
(* included, the components are constructed once and the global listeners  *)
(* are registered once.                                                    *)
(***************************************************************************)
C27_InitializesOnce ==
  app.constructed <= 1 /\ app.registrations <= 1

(***************************************************************************)
(* C29: debounce with immediate = false.  func is invoked only when wait   *)
(* has passed since the last call, with the arguments of that call; every  *)
(* burst of calls (the calls made while a timer is pending) gets one       *)
(* invocation, and a pending timer leads to it once the calls stop.        *)
(***************************************************************************)
TimerPending == deb.timeout # NoTimer

LastInvoked == deb.invoked[Len(deb.invoked)]

C29_OneInvocationPerBurst ==
  /\ [][deb.op' = "later"
          => /\ deb.now = deb.lastCall.at + deb.wait
             /\ deb.invoked' = Append(deb.invoked, [at |-> deb.now,
                                                   args |-> deb.lastCall.args])]_allVars
  /\ [][deb.invoked' # deb.invoked => deb.op' = "later"]_allVars
  /\ [](Len(deb.invoked) + (IF TimerPending THEN 1 ELSE 0) = deb.bursts)
  /\ [](~TimerPending /\ deb.bursts > 0
          => LastInvoked = [at |-> deb.lastCall.at + deb.wait,
                            args |-> deb.lastCall.args])
  /\ TimerPending ~> ~TimerPending

C29_Witness ==
  /\ deb.op = "later"
  /\ deb.firstCall.at < deb.lastCall.at
  /\ deb.firstCall.args # deb.lastCall.args
  /\ LastInvoked.args = deb.lastCall.args
  /\ Len(deb.invoked) = 2

(***************************************************************************)
(* C30: throttle.  The first call invokes func at once; two invocations    *)
(* are at least limit apart; func is invoked only by a call, at the time   *)
(* of the call and with its arguments, so a call inside the window is      *)
(* dropped for good.                                                       *)
(***************************************************************************)
InWindow ==
  /\ thr.invoked # <<>>
  /\ thr.now - thr.invoked[Len(thr.invoked)].at < thr.limit

C30_NoTrailingInvocation ==
  /\ [][thr.op = "throttle" /\ thr.op' = "call"
          => thr.invoked' = <<thr.lastCall'>> /\ thr.lastCall'.at = thr.now]_allVars
  /\ [](\A k \in 1..(Len(thr.invoked) - 1) :
          thr.invoked[k + 1].at - thr.invoked[k].at >= thr.limit)
  /\ [][thr.invoked' # thr.invoked
          => /\ thr.op' = "call"
             /\ thr.lastCall'.at = thr.now
             /\ thr.invoked' = Append(thr.invoked, thr.lastCall')]_allVars
  /\ [][InWindow /\ thr.op' = "call" => thr.invoked' = thr.invoked]_allVars

C30_Witness ==
  /\ thr.op = "reset"
  /\ Len(thr.invoked) = 2
  /\ thr.lastCall.at > thr.invoked[2].at
  /\ thr.lastCall.args # thr.invoked[2].args

====
